---- MODULE Spec2Model ----
(***************************************************************************)
(* Model of dockerps (src/main.go, the revision with container actions,    *)
(* lines 409-958): a Bubble Tea program whose Update function is driven by *)
(* key events, window resizes and the results of asynchronous commands.    *)
(*                                                                         *)
(* Strings are sequences of bytes, each byte written as a one-character    *)
(* string; a fixed literal of the program that is only ever compared or    *)
(* shown whole is written as one element.                                  *)
(***************************************************************************)
EXTENDS Bags, FiniteSets, Integers, Sequences, TLC

(***************************************************************************)
(* Bounds of the model.                                                    *)
(***************************************************************************)
\* commands in flight at once (the program itself sets no limit)
MaxPending == 3
\* length of the filter text typed in the model (the program allows CharLimit)
MaxFilterLen == 1
\* key events and resizes in one run
MaxEvents == 3

(***************************************************************************)
(* String helpers: strings.TrimPrefix, strings.Contains, strings.ToLower,  *)
(* strings.ToUpper, strings.ReplaceAll with an empty replacement.          *)
(***************************************************************************)
Lowers == <<"a","b","c","d","e","f","g","h","i","j","k","l","m",
            "n","o","p","q","r","s","t","u","v","w","x","y","z">>
Uppers == <<"A","B","C","D","E","F","G","H","I","J","K","L","M",
            "N","O","P","Q","R","S","T","U","V","W","X","Y","Z">>

IndexIn(seq, ch) == CHOOSE i \in 1..Len(seq) : seq[i] = ch

ToLowerCh(ch) ==
  IF \E i \in 1..Len(Uppers) : Uppers[i] = ch THEN Lowers[IndexIn(Uppers, ch)] ELSE ch

ToUpperCh(ch) ==
  IF \E i \in 1..Len(Lowers) : Lowers[i] = ch THEN Uppers[IndexIn(Lowers, ch)] ELSE ch

ToLower(s) == [i \in 1..Len(s) |-> ToLowerCh(s[i])]

ToUpper(s) == [i \in 1..Len(s) |-> ToUpperCh(s[i])]

HasPrefix(s, p) == Len(s) >= Len(p) /\ SubSeq(s, 1, Len(p)) = p

TrimPrefix(s, p) == IF HasPrefix(s, p) THEN SubSeq(s, Len(p) + 1, Len(s)) ELSE s

Contains(s, sub) ==
  \E i \in 0..(Len(s) - Len(sub)) : SubSeq(s, i + 1, i + Len(sub)) = sub

RECURSIVE RemoveAll(_, _)
RemoveAll(s, old) ==
  IF Len(s) < Len(old) THEN s
  ELSE IF SubSeq(s, 1, Len(old)) = old
       THEN RemoveAll(SubSeq(s, Len(old) + 1, Len(s)), old)
       ELSE <<Head(s)>> \o RemoveAll(Tail(s), old)

Rep(ch, n) == [i \in 1..n |-> ch]

(***************************************************************************)
(* Container records (type Container) and the listings the runtime can     *)
(* print.  cWeb has the 12-byte id "docker ps" prints by default, cDb an   *)
(* untruncated-style id longer than the id column and a name longer than   *)
(* the narrowest name column, cTmp is what a line such as {"ID":"abc"}     *)
(* decodes to.                                                             *)
(***************************************************************************)
Container(id, image, ports, names, state) ==
  [ID |-> id, Image |-> image, Command |-> <<"cmd">>, Created |-> <<"created">>,
   Status |-> <<"status">>, Ports |-> ports, Names |-> names, State |-> state]

cWeb == Container(<<"a","1","b","2","c","3","d","4","e","5","f","6">>,
                  <<"N","g","i","n","x">>,
                  <<"0",".","0",".","0",".","0",":","8","0","-",">","8","0","/","t","c","p">>,
                  <<"/","w","e","b">>,
                  <<"r","u","n","n","i","n","g">>)

cDb == Container(<<"9","8","7","6","5","4","3","2","1","0","f","e","d","c","b","a">>,
                 <<"r","e","d","i","s">>,
                 <<>>,
                 <<"/","d","b">> \o Rep("-", 20),
                 <<"e","x","i","t","e","d">>)

cTmp == Container(<<"a","b","c">>, <<>>, <<>>, <<>>, <<"c","r","e","a","t","e","d">>)

Containers == {cWeb, cDb, cTmp}

\* one line of the listing: empty, not decodable, or the JSON of a record
EmptyLine == [json |-> "empty"]
BadLine == [json |-> "bad"]
JsonLine(c) == [json |-> "ok", c |-> c]

\* the listings, already trimmed and split into lines (main.go:489)
Outputs ==
  { <<JsonLine(cWeb), EmptyLine, JsonLine(cDb)>>,
    <<BadLine, BadLine, JsonLine(cTmp)>> }

(***************************************************************************)
(* Pure functions of main.go.                                              *)
(***************************************************************************)
max(a, b) == IF a > b THEN a ELSE b

\* s[:n] faults when n is negative or exceeds len(s)
SliceFaults(s, n) == n < 0 \/ n > Len(s)

\* variant: the dots are added after max bytes
truncate_DotsAfterMax(s, mx) ==
  IF Len(s) <= mx THEN s ELSE SubSeq(s, 1, mx) \o <<".", ".", ".">>

truncate(s, mx) ==
  IF Len(s) <= mx THEN s
  ELSE IF SliceFaults(s, mx - 3) THEN <<"panic">>
  ELSE SubSeq(s, 1, mx - 3) \o <<".", ".", ".">>

formatStatus(state) ==
  CASE state = <<"r","u","n","n","i","n","g">> -> <<"RUNNING">>
    [] state = <<"e","x","i","t","e","d">> -> <<"STOPPED">>
    [] state = <<"p","a","u","s","e","d">> -> <<"PAUSED">>
    [] state = <<"r","e","s","t","a","r","t","i","n","g">> -> <<"RESTART">>
    [] state = <<"r","e","m","o","v","i","n","g">> -> <<"REMOVING">>
    [] state = <<"d","e","a","d">> -> <<"DEAD">>
    [] state = <<"c","r","e","a","t","e","d">> -> <<"CREATED">>
    [] OTHER -> ToUpper(state)

\* the em dash is three bytes in UTF-8
Dash == <<"E2", "80", "94">>
BindAll == <<"0",".","0",".","0",".","0",":">>

formatPorts(ports) ==
  IF ports = <<>> THEN Dash
  ELSE truncate(RemoveAll(ports, BindAll), 25)

\* cols is the sequence of the table's column widths
containerToRow(cols, c) ==
  LET name == TrimPrefix(c.Names, <<"/">>) IN
  IF Len(cols) < 5
  THEN <<truncate(c.ID, 14), truncate(name, 25), truncate(c.Image, 30),
         formatStatus(c.State), truncate(formatPorts(c.Ports), 25)>>
  ELSE <<truncate(c.ID, cols[1]), truncate(name, cols[2]), truncate(c.Image, cols[3]),
         formatStatus(c.State), truncate(formatPorts(c.Ports), cols[5])>>

\* variant: the name is matched with its leading "/"
Matches_KeepsSlash(c, f) ==
  \/ Contains(ToLower(c.Names), f)
  \/ Contains(ToLower(c.Image), f)
  \/ Contains(ToLower(c.State), f)
  \/ Contains(ToLower(c.ID), f)
  \/ Contains(ToLower(c.Ports), f)

Matches(c, f) ==
  LET name == ToLower(TrimPrefix(c.Names, <<"/">>))
      ports == ToLower(c.Ports) IN
  \/ Contains(name, f)
  \/ Contains(ToLower(c.Image), f)
  \/ Contains(ToLower(c.State), f)
  \/ Contains(ToLower(c.ID), f)
  \/ Contains(ports, f)

filterContainers(containers, filter) ==
  IF filter = <<>> THEN containers
  ELSE SelectSeq(containers, LAMBDA c : Matches(c, ToLower(filter)))

\* variant: the loop ends at the first line that does not decode
RECURSIVE decodeLines_StopsAtBad(_)
decodeLines_StopsAtBad(lines) ==
  IF lines = <<>> THEN <<>>
  ELSE IF Head(lines).json = "ok"
       THEN <<Head(lines).c>> \o decodeLines_StopsAtBad(Tail(lines))
       ELSE IF Head(lines).json = "empty"
            THEN decodeLines_StopsAtBad(Tail(lines))
            ELSE <<>>

\* the loop of loadContainers over the lines of a successful listing
RECURSIVE decodeLines(_)
decodeLines(lines) ==
  IF lines = <<>> THEN <<>>
  ELSE IF Head(lines).json = "ok"
       THEN <<Head(lines).c>> \o decodeLines(Tail(lines))
       ELSE decodeLines(Tail(lines))


(***************************************************************************)
(* Messages (tea.Msg) and commands (tea.Cmd).  A command is a record; the  *)
(* value Update returns is the sequence of the commands it batches.  The   *)
(* cursor-blink commands of the text input (textinput.Blink, the results   *)
(* of filter.Focus and filter.Update) are left out: Update ignores their   *)
(* messages.                                                               *)
(***************************************************************************)
KeyMsg(k) == [type |-> "KeyMsg", key |-> k]
WindowSizeMsg(w, h) == [type |-> "WindowSizeMsg", Width |-> w, Height |-> h]
containersLoaded(cs) == [type |-> "containersLoaded", containers |-> cs]
actionResult(ok, text) == [type |-> "actionResult", success |-> ok, message |-> text]
errMsg(e) == [type |-> "errMsg", err |-> e]
NoMsg == [type |-> "none"]

Cmd(kind, id) == [kind |-> kind, id |-> id]
LoadCmd == Cmd("loadContainers", <<>>)
\* tea.Tick(2s, func -> loadContainers()): the delayed listing
TickCmd == Cmd("Tick", <<>>)
QuitCmd == Cmd("Quit", <<>>)

ExitErr == <<"exit status 1">>
Panic == [type |-> "panic"]

\* loadContainers (also the body of the Tick callback): ok is the exit of
\* "docker ps", lines its output
loadContainers(ok, lines) ==
  IF ~ok THEN errMsg(ExitErr) ELSE containersLoaded(decodeLines(lines))

startContainer(containerID, ok) ==
  IF ~ok THEN actionResult(FALSE, <<"Failed to start container: ">> \o ExitErr)
  ELSE IF SliceFaults(containerID, 12) THEN Panic
  ELSE actionResult(TRUE, <<"Container ">> \o SubSeq(containerID, 1, 12)
                            \o <<" started successfully">>)

\* variant: a failed stop is returned as an error
stopContainer_ErrOnFail(containerID, ok) ==
  IF ~ok THEN errMsg(ExitErr)
  ELSE IF SliceFaults(containerID, 12) THEN Panic
  ELSE actionResult(TRUE, <<"Container ">> \o SubSeq(containerID, 1, 12)
                            \o <<" stopped successfully">>)

stopContainer(containerID, ok) ==
  IF ~ok THEN actionResult(FALSE, <<"Failed to stop container: ">> \o ExitErr)
  ELSE IF SliceFaults(containerID, 12) THEN Panic
  ELSE actionResult(TRUE, <<"Container ">> \o SubSeq(containerID, 1, 12)
                            \o <<" stopped successfully">>)

\* variant: a failure of the stop is returned and ends the delete
deleteContainer_StopFailureSurfaces(containerID, stopOk, rmOk) ==
  IF ~stopOk THEN actionResult(FALSE, <<"Failed to stop container: ">> \o ExitErr)
  ELSE IF ~rmOk THEN actionResult(FALSE, <<"Failed to delete container: ">> \o ExitErr)
  ELSE IF SliceFaults(containerID, 12) THEN Panic
  ELSE actionResult(TRUE, <<"Container ">> \o SubSeq(containerID, 1, 12)
                            \o <<" deleted successfully">>)

\* stopOk is the exit of the "docker stop" issued first, rmOk of "docker rm"
deleteContainer(containerID, stopOk, rmOk) ==
  IF ~rmOk THEN actionResult(FALSE, <<"Failed to delete container: ">> \o ExitErr)
  ELSE IF SliceFaults(containerID, 12) THEN Panic
  ELSE actionResult(TRUE, <<"Container ">> \o SubSeq(containerID, 1, 12)
                            \o <<" deleted successfully">>)

(***************************************************************************)
(* The model struct and its methods.                                       *)
(***************************************************************************)
CharLimit == 50

initialModel ==
  [table |-> [cols |-> <<14, 25, 30, 16, 25>>, rows |-> <<>>, cursor |-> 0, height |-> 15],
   containers |-> <<>>,
   filter |-> [value |-> <<>>, focus |-> FALSE],
   filtering |-> FALSE,
   err |-> <<>>,
   width |-> 100,
   height |-> 30,
   statusMsg |-> <<>>,
   loading |-> FALSE]

\* table.Model.SetRows of the widget: the rows are replaced, the cursor kept
SetRows(t, rows) == [t EXCEPT !.rows = rows]

\* table.Model.Update of the widget for a key: up and down move the cursor
\* within the rows, any other key of the model leaves the table alone
tableUpdate(t, k) ==
  LET last == max(Len(t.rows) - 1, 0) IN
  CASE k = "up" -> [t EXCEPT !.cursor = max(t.cursor - 1, 0)]
    [] k = "down" -> [t EXCEPT !.cursor = IF t.cursor + 1 > last THEN last ELSE t.cursor + 1]
    [] OTHER -> t

Runes == {"q", "/", "r", "s", "x", "d"}

\* textinput.Model.Update of the widget for a key, the cursor at the end of
\* the text: a rune is appended up to CharLimit, backspace deletes the last
\* byte, any other key of the model leaves the text alone
filterUpdate(f, k) ==
  CASE k \in Runes /\ Len(f.value) < CharLimit -> [f EXCEPT !.value = Append(f.value, k)]
    [] k = "backspace" /\ f.value # <<>> ->
         [f EXCEPT !.value = SubSeq(f.value, 1, Len(f.value) - 1)]
    [] OTHER -> f

\* variant: the cursor indexes the records, not the filtered records
getSelectedContainer_Unfiltered(m) ==
  IF Len(m.containers) = 0 THEN <<>>
  ELSE LET filtered == filterContainers(m.containers, m.filter.value) IN
       IF Len(filtered) = 0 THEN <<>>
       ELSE IF m.table.cursor >= Len(filtered) THEN <<>>
       ELSE <<m.containers[m.table.cursor + 1]>>

\* <<>> is the nil pointer, <<c>> a pointer to c
getSelectedContainer(m) ==
  IF Len(m.containers) = 0 THEN <<>>
  ELSE LET filtered == filterContainers(m.containers, m.filter.value) IN
       IF Len(filtered) = 0 THEN <<>>
       ELSE IF m.table.cursor >= Len(filtered) THEN <<>>
       ELSE <<filtered[m.table.cursor + 1]>>

updateTable(m) ==
  LET filtered == filterContainers(m.containers, m.filter.value)
      rows == [i \in 1..Len(filtered) |-> containerToRow(m.table.cols, filtered[i])] IN
  [m EXCEPT !.table = SetRows(m.table, rows)]

\* variant: the rows are projected before the new columns are set
updateTableSize_StaleRows(m) ==
  LET width == IF m.width < 80 THEN 80 ELSE m.width
      remainingWidth == width - 40
      nameWidth == max(20, remainingWidth \div 3)
      imageWidth == max(25, remainingWidth \div 3)
      portsWidth == max(20, remainingWidth - nameWidth - imageWidth)
      columns == <<14, nameWidth, imageWidth, 16, portsWidth>> IN
  [updateTable(m) EXCEPT !.width = width,
                         !.table.cols = columns,
                         !.table.height = max(10, m.height - 10)]

\* variant: the reserve of 10 is left out of the fixed width
updateTableSize_NoReserve(m) ==
  LET width == IF m.width < 80 THEN 80 ELSE m.width
      remainingWidth == width - 30
      nameWidth == max(20, remainingWidth \div 3)
      imageWidth == max(25, remainingWidth \div 3)
      portsWidth == max(20, remainingWidth - nameWidth - imageWidth) IN
  updateTable([m EXCEPT !.width = width,
                        !.table.cols = <<14, nameWidth, imageWidth, 16, portsWidth>>,
                        !.table.height = max(10, m.height - 10)])

updateTableSize(m) ==
  LET width == IF m.width < 80 THEN 80 ELSE m.width
      idWidth == 14
      statusWidth == 16
      fixedWidth == idWidth + statusWidth + 10
      remainingWidth == width - fixedWidth
      nameWidth == max(20, remainingWidth \div 3)
      imageWidth == max(25, remainingWidth \div 3)
      portsWidth == max(20, remainingWidth - nameWidth - imageWidth)
      columns == <<idWidth, nameWidth, imageWidth, statusWidth, portsWidth>>
      tableHeight == max(10, m.height - 10) IN
  updateTable([m EXCEPT !.width = width,
                        !.table.cols = columns,
                        !.table.height = tableHeight])


(***************************************************************************)
(* model.Update.  The result is the new model, the batch of commands       *)
(* returned with it, and whether the call faulted instead of returning.    *)
(***************************************************************************)
Ret(m, cmd) == [m |-> m, cmd |-> cmd, panic |-> FALSE]
Fault(m) == [m |-> m, cmd |-> <<>>, panic |-> TRUE]

Running == <<"r","u","n","n","i","n","g">>
Refreshing == <<"Refreshing containers...">>
AlreadyRunning == <<"Container is already running">>
NotRunning == <<"Container is not running">>

\* variant: a resize starts the filter afresh
UpdateWindowSize_ResetsFilter(m, msg) ==
  Ret(updateTableSize([m EXCEPT !.width = msg.Width, !.height = msg.Height,
                                !.filter.value = <<>>]), <<>>)

\* case tea.WindowSizeMsg
UpdateWindowSize(m, msg) ==
  Ret(updateTableSize([m EXCEPT !.width = msg.Width, !.height = msg.Height]), <<>>)

\* variant: q quits in Filtering mode as it does in Browsing mode
UpdateKeyFiltering_QQuits(m, k) ==
  CASE k \in {"ctrl+c", "q"} -> Ret(m, <<QuitCmd>>)
    [] k = "esc" -> Ret([m EXCEPT !.filtering = FALSE, !.filter.focus = FALSE], <<>>)
    [] k = "enter" ->
         Ret(updateTable([m EXCEPT !.filtering = FALSE, !.filter.focus = FALSE]), <<>>)
    [] OTHER -> Ret(updateTable([m EXCEPT !.filter = filterUpdate(m.filter, k)]), <<>>)

\* variant: esc discards the filter text
UpdateKeyFiltering_EscClears(m, k) ==
  CASE k = "ctrl+c" -> Ret(m, <<QuitCmd>>)
    [] k = "esc" -> Ret(updateTable([m EXCEPT !.filtering = FALSE, !.filter.focus = FALSE,
                                              !.filter.value = <<>>]), <<>>)
    [] k = "enter" ->
         Ret(updateTable([m EXCEPT !.filtering = FALSE, !.filter.focus = FALSE]), <<>>)
    [] OTHER -> Ret(updateTable([m EXCEPT !.filter = filterUpdate(m.filter, k)]), <<>>)

\* case tea.KeyMsg, m.filtering
UpdateKeyFiltering(m, k) ==
  CASE k = "ctrl+c" -> Ret(m, <<QuitCmd>>)
    [] k = "esc" -> Ret([m EXCEPT !.filtering = FALSE, !.filter.focus = FALSE], <<>>)
    [] k = "enter" ->
         Ret(updateTable([m EXCEPT !.filtering = FALSE, !.filter.focus = FALSE]), <<>>)
    [] OTHER -> Ret(updateTable([m EXCEPT !.filter = filterUpdate(m.filter, k)]), <<>>)

\* variant: s starts the selected record whatever its state
UpdateKeyStart_NoGuard(m) ==
  LET container == getSelectedContainer(m) IN
  IF container # <<>>
  THEN IF SliceFaults(container[1].ID, 12) THEN Fault(m)
       ELSE Ret([m EXCEPT !.statusMsg = <<"Starting container ">>
                                         \o SubSeq(container[1].ID, 1, 12) \o <<"...">>,
                          !.loading = TRUE],
                <<Cmd("startContainer", container[1].ID), TickCmd>>)
  ELSE Ret(m, <<>>)

\* case "s"
UpdateKeyStart(m) ==
  LET container == getSelectedContainer(m) IN
  IF container # <<>>
  THEN IF container[1].State = Running
       THEN Ret([m EXCEPT !.statusMsg = AlreadyRunning], <<>>)
       ELSE IF SliceFaults(container[1].ID, 12) THEN Fault(m)
       ELSE Ret([m EXCEPT !.statusMsg = <<"Starting container ">>
                                         \o SubSeq(container[1].ID, 1, 12) \o <<"...">>,
                          !.loading = TRUE],
                <<Cmd("startContainer", container[1].ID), TickCmd>>)
  ELSE Ret(m, <<>>)

\* case "x"
UpdateKeyStop(m) ==
  LET container == getSelectedContainer(m) IN
  IF container # <<>>
  THEN IF container[1].State # Running
       THEN Ret([m EXCEPT !.statusMsg = NotRunning], <<>>)
       ELSE IF SliceFaults(container[1].ID, 12) THEN Fault(m)
       ELSE Ret([m EXCEPT !.statusMsg = <<"Stopping container ">>
                                         \o SubSeq(container[1].ID, 1, 12) \o <<"...">>,
                          !.loading = TRUE],
                <<Cmd("stopContainer", container[1].ID), TickCmd>>)
  ELSE Ret(m, <<>>)

\* variant: d returns the delete command without the delayed list
UpdateKeyDelete_NoTick(m) ==
  LET container == getSelectedContainer(m) IN
  IF container # <<>>
  THEN IF SliceFaults(container[1].ID, 12) THEN Fault(m)
       ELSE Ret([m EXCEPT !.statusMsg = <<"Deleting container ">>
                                         \o SubSeq(container[1].ID, 1, 12) \o <<"...">>,
                          !.loading = TRUE],
                <<Cmd("deleteContainer", container[1].ID)>>)
  ELSE Ret(m, <<>>)

\* variant: d also takes the selected record out of the list at once
UpdateKeyDelete_RemovesRecord(m) ==
  LET container == getSelectedContainer(m) IN
  IF container # <<>>
  THEN IF SliceFaults(container[1].ID, 12) THEN Fault(m)
       ELSE Ret(updateTable(
                  [m EXCEPT !.statusMsg = <<"Deleting container ">>
                                          \o SubSeq(container[1].ID, 1, 12) \o <<"...">>,
                            !.loading = TRUE,
                            !.containers = SelectSeq(m.containers,
                                                     LAMBDA c : c # container[1])]),
                <<Cmd("deleteContainer", container[1].ID), TickCmd>>)
  ELSE Ret(m, <<>>)

\* variant: d starts a stop of its own next to the delete
UpdateKeyDelete_StopsToo(m) ==
  LET container == getSelectedContainer(m) IN
  IF container # <<>>
  THEN IF SliceFaults(container[1].ID, 12) THEN Fault(m)
       ELSE Ret([m EXCEPT !.statusMsg = <<"Deleting container ">>
                                         \o SubSeq(container[1].ID, 1, 12) \o <<"...">>,
                          !.loading = TRUE],
                <<Cmd("stopContainer", container[1].ID),
                  Cmd("deleteContainer", container[1].ID), TickCmd>>)
  ELSE Ret(m, <<>>)

\* case "d"
UpdateKeyDelete(m) ==
  LET container == getSelectedContainer(m) IN
  IF container # <<>>
  THEN IF SliceFaults(container[1].ID, 12) THEN Fault(m)
       ELSE Ret([m EXCEPT !.statusMsg = <<"Deleting container ">>
                                         \o SubSeq(container[1].ID, 1, 12) \o <<"...">>,
                          !.loading = TRUE],
                <<Cmd("deleteContainer", container[1].ID), TickCmd>>)
  ELSE Ret(m, <<>>)

\* case tea.KeyMsg, not m.filtering
UpdateKeyBrowsing(m, k) ==
  CASE k \in {"ctrl+c", "q"} -> Ret(m, <<QuitCmd>>)
    [] k = "/" -> Ret([m EXCEPT !.filtering = TRUE, !.filter.focus = TRUE], <<>>)
    [] k = "r" -> Ret([m EXCEPT !.statusMsg = Refreshing, !.loading = TRUE], <<LoadCmd>>)
    [] k = "s" -> UpdateKeyStart(m)
    [] k = "x" -> UpdateKeyStop(m)
    [] k = "d" -> UpdateKeyDelete(m)
    [] OTHER -> Ret([m EXCEPT !.table = tableUpdate(m.table, k)], <<>>)

\* variant: a list result leaves loading as it was
UpdateContainersLoaded_KeepsLoading(m, msg) ==
  LET m1 == updateTable([m EXCEPT !.containers = msg.containers]) IN
  Ret(IF m1.statusMsg = Refreshing THEN [m1 EXCEPT !.statusMsg = <<>>] ELSE m1, <<>>)

\* variant: the records of a list result are added to the ones held
UpdateContainersLoaded_Appends(m, msg) ==
  LET m1 == updateTable([m EXCEPT !.containers = m.containers \o msg.containers])
      m2 == [m1 EXCEPT !.loading = FALSE] IN
  Ret(IF m2.statusMsg = Refreshing THEN [m2 EXCEPT !.statusMsg = <<>>] ELSE m2, <<>>)

\* variant: a list result clears whatever status there is
UpdateContainersLoaded_ClearsStatus(m, msg) ==
  LET m1 == updateTable([m EXCEPT !.containers = msg.containers])
      m2 == [m1 EXCEPT !.loading = FALSE] IN
  Ret([m2 EXCEPT !.statusMsg = <<>>], <<>>)

\* case containersLoaded
UpdateContainersLoaded(m, msg) ==
  LET m1 == updateTable([m EXCEPT !.containers = msg.containers])
      m2 == [m1 EXCEPT !.loading = FALSE] IN
  Ret(IF m2.statusMsg = Refreshing THEN [m2 EXCEPT !.statusMsg = <<>>] ELSE m2, <<>>)

\* variant: an action result leaves loading as it was
UpdateActionResult_KeepsLoading(m, msg) ==
  Ret([m EXCEPT !.statusMsg = msg.message], <<>>)

\* variant: an action result that finds loading cleared is dropped
UpdateActionResult_DroppedWhenIdle(m, msg) ==
  Ret(IF m.loading THEN [m EXCEPT !.loading = FALSE, !.statusMsg = msg.message] ELSE m, <<>>)

\* case actionResult
UpdateActionResult(m, msg) ==
  Ret([m EXCEPT !.loading = FALSE, !.statusMsg = msg.message], <<>>)

\* case errMsg
UpdateErrMsg(m, msg) ==
  Ret([m EXCEPT !.err = msg.err, !.loading = FALSE], <<QuitCmd>>)

Update(m, msg) ==
  CASE msg.type = "WindowSizeMsg" -> UpdateWindowSize(m, msg)
    [] msg.type = "KeyMsg" ->
         IF m.filtering THEN UpdateKeyFiltering(m, msg.key) ELSE UpdateKeyBrowsing(m, msg.key)
    [] msg.type = "containersLoaded" -> UpdateContainersLoaded(m, msg)
    [] msg.type = "actionResult" -> UpdateActionResult(m, msg)
    [] msg.type = "errMsg" -> UpdateErrMsg(m, msg)
    [] OTHER -> Ret(m, <<>>)

(***************************************************************************)
(* The program: the runtime's loop hands one message at a time to Update   *)
(* and starts the commands it returns; each command runs on its own and    *)
(* its result comes back as a later message.  tea.Quit is such a command:  *)
(* the loop ends when its message is taken.                                *)
(***************************************************************************)
VARIABLES
  model,     \* the model value held by the loop
  inflight,  \* bag of the commands started and not yet returned
  msg,       \* the message of the last step
  cmd,       \* the commands the last Update returned
  from,      \* the command whose result msg is, <<>> for an input event
  events,    \* number of key events and resizes so far
  call,      \* a function of main.go called on its own: arguments and result
  program    \* "running", "quit" or "panic"

vars == <<model, inflight, msg, cmd, from, events, call, program>>

\* no function is called on its own while the program runs
NoCall == [fn |-> "none"]

Keys == {"ctrl+c", "q", "/", "r", "s", "x", "d", "esc", "enter", "up", "down", "backspace"}
Widths == {70}
Heights == {12}

RECURSIVE SeqToBag(_)
SeqToBag(s) == IF s = <<>> THEN EmptyBag ELSE SetToBag({Head(s)}) (+) SeqToBag(Tail(s))

\* model.Init starts loadContainers
Init ==
  /\ model = initialModel
  /\ inflight = SetToBag({LoadCmd})
  /\ msg = NoMsg
  /\ cmd = <<LoadCmd>>
  /\ from = <<>>
  /\ events = 0
  /\ call = NoCall
  /\ program = "running"

\* one turn of the loop for message ev, rest being the commands still running
Step(ev, src, rest) ==
  LET r == Update(model, ev) IN
  /\ msg' = ev
  /\ from' = src
  /\ UNCHANGED call
  /\ IF r.panic
     THEN /\ program' = "panic"
          /\ UNCHANGED <<model, inflight>>
          /\ cmd' = <<>>
     ELSE /\ BagCardinality(rest) + Len(r.cmd) <= MaxPending
          /\ model' = r.m
          /\ cmd' = r.cmd
          /\ inflight' = rest (+) SeqToBag(r.cmd)
          /\ UNCHANGED program

\* a key event with a key of the set keys
KeyEvent(keys) ==
  /\ program = "running"
  /\ events < MaxEvents
  /\ events' = events + 1
  /\ \E k \in keys :
       /\ model.filtering /\ k \in Runes => Len(model.filter.value) < MaxFilterLen
       /\ Step(KeyMsg(k), <<>>, inflight)

KeyPress == KeyEvent(Keys)

\* the keys of Browsing mode that return commands or move the cursor
BrowsingKeys == {"q", "r", "s", "x", "d", "down"}
BrowsingKeyPress == KeyEvent(BrowsingKeys)

Resize ==
  /\ program = "running"
  /\ events < MaxEvents
  /\ events' = events + 1
  /\ \E w \in Widths, h \in Heights : Step(WindowSizeMsg(w, h), <<>>, inflight)

\* the message command c produces
Results(c) ==
  CASE c.kind \in {"loadContainers", "Tick"} ->
         {loadContainers(TRUE, o) : o \in Outputs} \cup {loadContainers(FALSE, <<>>)}
    [] c.kind = "startContainer" -> {startContainer(c.id, ok) : ok \in BOOLEAN}
    [] c.kind = "stopContainer" -> {stopContainer(c.id, ok) : ok \in BOOLEAN}
    [] c.kind = "deleteContainer" ->
         {deleteContainer(c.id, stopOk, rmOk) : stopOk \in BOOLEAN, rmOk \in BOOLEAN}

CommandReturns ==
  /\ program = "running"
  /\ \E c \in BagToSet(inflight) :
       /\ c.kind # "Quit"
       /\ \E res \in Results(c) : Step(res, <<c>>, inflight (-) SetToBag({c}))
  /\ UNCHANGED events

QuitReturns ==
  /\ program = "running"
  /\ BagIn(QuitCmd, inflight)
  /\ program' = "quit"
  /\ msg' = [type |-> "QuitMsg"]
  /\ from' = <<QuitCmd>>
  /\ cmd' = <<>>
  /\ inflight' = inflight (-) SetToBag({QuitCmd})
  /\ UNCHANGED <<model, events, call>>

Next == KeyPress \/ Resize \/ CommandReturns \/ QuitReturns

Spec == Init /\ [][Next]_vars

\* The program in Browsing mode, where loading is set, with the scheduling the
\* runtime gives: a command that was started returns, and the loop takes a
\* quit message.
FairNext == BrowsingKeyPress \/ CommandReturns \/ QuitReturns

FairSpec == Init /\ [][FairNext]_vars /\ WF_vars(CommandReturns) /\ WF_vars(QuitReturns)


(***************************************************************************)
(* The functions of main.go called on their own.  The program variables    *)
(* stay as the program starts; call holds the arguments, then the result.  *)
(***************************************************************************)
\* sequences over the set S of length at most n
SeqsUpTo(S, n) == UNION {[1..k -> S] : k \in 0..n}

ProgramAtStart ==
  /\ model = initialModel
  /\ inflight = SetToBag({LoadCmd})
  /\ msg = NoMsg
  /\ cmd = <<LoadCmd>>
  /\ from = <<>>
  /\ events = 0
  /\ program = "running"

\* the call returns: out is its result
Return(out) ==
  /\ ~call.done
  /\ call' = [call EXCEPT !.done = TRUE, !.out = out]
  /\ UNCHANGED <<model, inflight, msg, cmd, from, events, program>>

\* filterContainers on every list of at most MaxListLen records and every
\* filter text of at most MaxNeedleLen bytes
MaxListLen == 3
MaxNeedleLen == 2
NeedleBytes == {"/", "n", "N", "x", "-"}

FilterInit ==
  /\ ProgramAtStart
  /\ \E cs \in SeqsUpTo(Containers, MaxListLen), f \in SeqsUpTo(NeedleBytes, MaxNeedleLen) :
       call = [fn |-> "filterContainers", containers |-> cs, filter |-> f,
               done |-> FALSE, out |-> <<>>]

FilterCall == Return(filterContainers(call.containers, call.filter))

FilterSpec == FilterInit /\ [][FilterCall]_vars

\* updateTableSize on a model of every width and height of the sets below
LayoutWidths == 60..140
LayoutHeights == {5, 30}

LayoutInit ==
  /\ ProgramAtStart
  /\ \E w \in LayoutWidths, h \in LayoutHeights :
       call = [fn |-> "updateTableSize", width |-> w, height |-> h,
               done |-> FALSE, out |-> <<>>]

LayoutCall ==
  Return(updateTableSize([initialModel EXCEPT !.width = call.width,
                                              !.height = call.height]))

LayoutSpec == LayoutInit /\ [][LayoutCall]_vars

\* truncate on strings of every length up to MaxStrLen and every width it is
\* called with: the literals of containerToRow and formatPorts, and the
\* column widths updateTableSize sets
MaxStrLen == 36
StringOfLen(k) == [i \in 1..k |-> Lowers[((i - 1) % 26) + 1]]
TruncateWidths ==
  {14, 25, 30} \cup
  {updateTableSize([initialModel EXCEPT !.width = w]).table.cols[i] :
     w \in LayoutWidths, i \in {1, 2, 3, 5}}

TruncateInit ==
  /\ ProgramAtStart
  /\ \E k \in 0..MaxStrLen, n \in TruncateWidths :
       call = [fn |-> "truncate", s |-> StringOfLen(k), max |-> n,
               done |-> FALSE, out |-> <<>>]

TruncateCall == Return(truncate(call.s, call.max))

TruncateSpec == TruncateInit /\ [][TruncateCall]_vars

\* loadContainers on every listing of at most MaxLines lines.  The output is
\* trimmed before it is split, so only the one line of an empty output, or a
\* line between two others, is empty.
MaxLines == 3
Lines == {EmptyLine, BadLine} \cup {JsonLine(c) : c \in Containers}
Listings ==
  {<<EmptyLine>>} \cup
  {l \in SeqsUpTo(Lines, MaxLines) :
     l # <<>> /\ l[1] # EmptyLine /\ l[Len(l)] # EmptyLine}

ParseInit ==
  /\ ProgramAtStart
  /\ \E ok \in BOOLEAN, l \in Listings :
       call = [fn |-> "loadContainers", ok |-> ok, lines |-> l,
               done |-> FALSE, out |-> <<>>]

ParseCall == Return(loadContainers(call.ok, call.lines))

ParseSpec == ParseInit /\ [][ParseCall]_vars

\* The program in Browsing mode with a filter text already committed: the
\* keys "/", the text and enter were pressed while the initial listing was
\* still running.  events counts the keys from there on.
FilterTexts == {<<>>, <<"s">>, <<"q">>}

RECURSIVE TypeKeys(_, _)
TypeKeys(m, keys) ==
  IF keys = <<>> THEN m
  ELSE TypeKeys(Update(m, KeyMsg(Head(keys))).m, Tail(keys))

SelectInit ==
  /\ \E f \in FilterTexts :
       model = TypeKeys(initialModel, <<"/">> \o f \o <<"enter">>)
  /\ inflight = SetToBag({LoadCmd})
  /\ msg = KeyMsg("enter")
  /\ cmd = <<>>
  /\ from = <<>>
  /\ events = 0
  /\ call = NoCall
  /\ program = "running"

\* the keys that act on the selection or move it
SelectKeys == {"s", "x", "d", "up", "down"}
SelectKeyPress == KeyEvent(SelectKeys)

SelectNext == SelectKeyPress \/ CommandReturns \/ QuitReturns

SelectSpec == SelectInit /\ [][SelectNext]_vars

\* containerToRow on records whose ports text lists up to MaxPortMaps port
\* mappings, each bound to all addresses or to none, at the columns the
\* program starts with and the ones updateTableSize sets
MaxPortMaps == 3
PortMap == <<"8","0","8","0","-",">","8","0","/","t","c","p">>
PortSep == <<",", " ">>

RECURSIVE PortsText(_)
PortsText(binds) ==
  IF binds = <<>> THEN <<>>
  ELSE (IF Head(binds) THEN BindAll ELSE <<>>) \o PortMap
       \o (IF Tail(binds) = <<>> THEN <<>> ELSE PortSep \o PortsText(Tail(binds)))

ColumnLayouts ==
  {initialModel.table.cols} \cup
  {updateTableSize([initialModel EXCEPT !.width = w]).table.cols : w \in LayoutWidths}

RowInit ==
  /\ ProgramAtStart
  /\ \E binds \in SeqsUpTo(BOOLEAN, MaxPortMaps), cols \in ColumnLayouts :
       call = [fn |-> "containerToRow", cols |-> cols,
               c |-> [cWeb EXCEPT !.Ports = PortsText(binds)],
               done |-> FALSE, out |-> <<>>]

RowCall == Return(containerToRow(call.cols, call.c))

RowSpec == RowInit /\ [][RowCall]_vars

\* The function deleteContainer returns, run step by step: call.ran lists the
\* external commands run so far, each with its exit.  The ids are of 12 bytes
\* and more: the d key slices the id to 12 bytes before it returns the
\* command, so the command never gets a shorter one.
MaxIdLen == 24
DeleteIds == {StringOfLen(k) : k \in 12..MaxIdLen}
Run(name, id, ok) == [cmd |-> <<"docker", name>>, id |-> id, ok |-> ok]

DeleteInit ==
  /\ ProgramAtStart
  /\ \E id \in DeleteIds :
       call = [fn |-> "deleteContainer", containerID |-> id, pc |-> "stop",
               ran |-> <<>>, done |-> FALSE, out |-> <<>>]

\* stopCmd.Run(), its error dropped
DeleteRunStop ==
  /\ call.pc = "stop"
  /\ \E ok \in BOOLEAN :
       call' = [call EXCEPT !.ran = Append(@, Run("stop", call.containerID, ok)),
                            !.pc = "rm"]
  /\ UNCHANGED <<model, inflight, msg, cmd, from, events, program>>

\* err := cmd.Run() of "docker rm"
DeleteRunRm ==
  /\ call.pc = "rm"
  /\ \E ok \in BOOLEAN :
       call' = [call EXCEPT !.ran = Append(@, Run("rm", call.containerID, ok)),
                            !.pc = "return"]
  /\ UNCHANGED <<model, inflight, msg, cmd, from, events, program>>

DeleteReturn ==
  /\ call.pc = "return"
  /\ Return(deleteContainer(call.containerID, call.ran[1].ok, call.ran[2].ok))

DeleteNext == DeleteRunStop \/ DeleteRunRm \/ DeleteReturn

DeleteSpec == DeleteInit /\ [][DeleteNext]_vars

(***************************************************************************)
(* Properties.  In an action formula, model is the state Update is called  *)
(* on and msg', cmd', model' are the message, the returned commands and    *)
(* the resulting state of that call.                                       *)
(***************************************************************************)
ActionKinds == {"startContainer", "stopContainer", "deleteContainer"}
ExternalKinds == ActionKinds \cup {"loadContainers", "Tick"}
ResultTypes == {"containersLoaded", "actionResult", "errMsg"}

CmdsOf(kinds, batch) == {i \in 1..Len(batch) : batch[i].kind \in kinds}
Ticks(bag) == CopiesIn(TickCmd, bag)
ProjectedRows(m) ==
  LET filtered == filterContainers(m.containers, m.filter.value) IN
  [i \in 1..Len(filtered) |-> containerToRow(m.table.cols, filtered[i])]
BrowsingKey(k) == msg' = KeyMsg(k) /\ ~model.filtering
FilteringKey(k) == msg' = KeyMsg(k) /\ model.filtering

\* C1: in every state the table's rows are the projection, at the current
\* column widths, of the records that pass the current filter text.
C1_RowsAreProjection == model.table.rows = ProjectedRows(model)

\* a filtered, resized table: fewer rows than records, a name cut to the
\* 20-byte column of the resized layout
C1_Witness ==
  /\ model.filter.value # <<>>
  /\ model.table.cols[2] = 20
  /\ Len(model.table.rows) = 1
  /\ Len(model.containers) = 2
  /\ Len(model.table.rows[1][2]) = 20

\* C2: loading is true only while a list, delayed list, start, stop or
\* delete command is in flight.
C2_LoadingHasPending ==
  model.loading => \E c \in BagToSet(inflight) : c.kind \in ExternalKinds

C2_Witness ==
  /\ model.loading
  /\ BagCardinality(inflight) = 1
  /\ program = "running"

\* C3: a key that returns a start, stop or delete command returns exactly that
\* command and one delayed list; the number of delayed lists in flight goes
\* down only by one at a time, and only when its result is handed to Update.
C3_OneTickPerAction ==
  /\ [](msg.type = "KeyMsg" /\ CmdsOf(ActionKinds, cmd) # {} =>
          /\ Len(cmd) = 2
          /\ cmd[1].kind \in ActionKinds
          /\ cmd[2] = TickCmd)
  /\ [][/\ Ticks(inflight') > Ticks(inflight) =>
             /\ Ticks(inflight') = Ticks(inflight) + 1
             /\ msg'.type = "KeyMsg"
             /\ msg'.key \in {"s", "x", "d"}
             /\ Cardinality(CmdsOf(ActionKinds, cmd')) = 1
        /\ Ticks(inflight') < Ticks(inflight) =>
             /\ Ticks(inflight') = Ticks(inflight) - 1
             /\ from' = <<TickCmd>>
             /\ msg'.type \in {"containersLoaded", "errMsg"}]_vars

\* the first of two delayed lists has delivered its records, the second is
\* still in flight
C3_Witness ==
  /\ from = <<TickCmd>>
  /\ msg.type = "containersLoaded"
  /\ Ticks(inflight) = 1
  /\ program = "running"

\* C4: once err is set the next step ends the program: no step changes the
\* model or returns a command after it.
C4_ErrIsTerminal ==
  [][model.err # <<>> => /\ model' = model
                         /\ cmd' = <<>>
                         /\ program' # "running"]_vars

\* C5: the records change only in the step that processes a list result, and
\* after such a step they are the records of the result.
C5_RecordsOnlyFromList ==
  /\ [](msg.type = "containersLoaded" => model.containers = msg.containers)
  /\ [][model'.containers # model.containers => msg'.type = "containersLoaded"]_vars

\* a list result replaced a non-empty list by a different non-empty one
C5_Witness ==
  /\ msg.type = "containersLoaded"
  /\ model.containers = <<cTmp>>
  /\ model.statusMsg # <<>>

\* C6: with a record selected in Browsing mode, s returns a start command only
\* for a record that is not running and x a stop command only for one that
\* is; in the other case the status is the informational text, no command is
\* returned and loading keeps its value.
C6_StartStopGuards ==
  [][LET sel == getSelectedContainer(model) IN
     sel # <<>> =>
       /\ BrowsingKey("s") =>
            /\ CmdsOf({"startContainer"}, cmd') # {} => sel[1].State # Running
            /\ sel[1].State = Running =>
                 /\ model'.statusMsg = AlreadyRunning
                 /\ cmd' = <<>>
                 /\ inflight' = inflight
                 /\ model'.loading = model.loading
       /\ BrowsingKey("x") =>
            /\ CmdsOf({"stopContainer"}, cmd') # {} => sel[1].State = Running
            /\ sel[1].State # Running =>
                 /\ model'.statusMsg = NotRunning
                 /\ cmd' = <<>>
                 /\ inflight' = inflight
                 /\ model'.loading = model.loading]_vars

\* s on a running record while a refresh is loading
C6_Witness ==
  /\ msg = KeyMsg("s")
  /\ model.statusMsg = AlreadyRunning
  /\ model.loading
  /\ cmd = <<>>

\* C7: d on any selected record in Browsing mode returns the delete command
\* for its id with a delayed list, sets loading and the "Deleting" status,
\* and does not fault.
C7_DeleteAnyRecord ==
  [][LET sel == getSelectedContainer(model) IN
     BrowsingKey("d") /\ sel # <<>> =>
       /\ program' = "running"
       /\ cmd' = <<Cmd("deleteContainer", sel[1].ID), TickCmd>>
       /\ model'.loading
       /\ model'.statusMsg =
            <<"Deleting container ">>
            \o SubSeq(sel[1].ID, 1, IF Len(sel[1].ID) < 12 THEN Len(sel[1].ID) ELSE 12)
            \o <<"...">>]_vars

\* C8: every result handed to Update leaves loading false, loading becomes
\* true only in a key step that returns a command, and while the program
\* runs and the commands return a true loading becomes false again.
C8_LoadingClears ==
  /\ [](msg.type \in ResultTypes => ~model.loading)
  /\ [][~model.loading /\ model'.loading => msg'.type = "KeyMsg" /\ cmd' # <<>>]_vars
  /\ (model.loading ~> (~model.loading \/ program # "running"))

\* a delete's own result and its delayed list have both come back
C8_Witness ==
  /\ ~model.loading
  /\ from = <<TickCmd>>
  /\ msg.type = "containersLoaded"
  /\ inflight = EmptyBag
  /\ Len(model.statusMsg) = 14
  /\ model.statusMsg[14] = " deleted successfully"

\* C9: a key in Filtering mode returns the quit command exactly when it is
\* ctrl+c, never a list, start, stop or delete command, and leaves loading
\* and the status alone; a key other than ctrl+c, esc and enter goes to the
\* filter input and the rows are those of the new filter text.
C9_FilteringCapturesKeys ==
  [][\A k \in Keys : FilteringKey(k) =>
       /\ (QuitCmd \in {cmd'[i] : i \in 1..Len(cmd')}) <=> (k = "ctrl+c")
       /\ CmdsOf(ExternalKinds, cmd') = {}
       /\ model'.loading = model.loading
       /\ model'.statusMsg = model.statusMsg
       /\ program' = "running"
       /\ k \notin {"ctrl+c", "esc", "enter"} =>
            /\ model'.filter = filterUpdate(model.filter, k)
            /\ model'.filtering
            /\ model'.table.rows = ProjectedRows(model')]_vars

\* q typed into the filter while records are shown: no row is left
C9_Witness ==
  /\ msg = KeyMsg("q")
  /\ model.filtering
  /\ model.filter.value = <<"q">>
  /\ model.containers # <<>>
  /\ model.table.rows = <<>>
  /\ ~BagIn(QuitCmd, inflight)

\* C10: esc in Filtering mode leaves Filtering mode and changes nothing else:
\* the filter text, the rows, the records, loading and the status stay.
C10_EscKeepsFilter ==
  [][FilteringKey("esc") =>
       /\ ~model'.filtering
       /\ model'.filter.value = model.filter.value
       /\ model'.table.rows = model.table.rows
       /\ model'.containers = model.containers
       /\ model'.loading = model.loading
       /\ model'.statusMsg = model.statusMsg
       /\ cmd' = <<>>]_vars

\* esc after a filter text that hides a record was typed
C10_Witness ==
  /\ msg = KeyMsg("esc")
  /\ ~model.filtering
  /\ model.filter.value = <<"s">>
  /\ Len(model.table.rows) = 1
  /\ Len(model.containers) = 2

\* the k-th smallest element of the set of numbers S
Kth(S, k) == CHOOSE i \in S : Cardinality({j \in S : j < i}) = k - 1

\* the elements of seq at the positions of the set S, in their order
PickedFrom(seq, S) == [k \in 1..Cardinality(S) |-> seq[Kth(S, k)]]

Occurs(t, s) ==
  \E i \in 1..(Len(s) + 1) :
    /\ i + Len(t) - 1 <= Len(s)
    /\ \A j \in 1..Len(t) : s[i + j - 1] = t[j]

NameOf(c) == IF c.Names # <<>> /\ c.Names[1] = "/" THEN Tail(c.Names) ELSE c.Names

Hit(c, f) ==
  \E field \in {NameOf(c), c.Image, c.State, c.ID, c.Ports} :
    Occurs(ToLower(f), ToLower(field))

\* C11: filterContainers returns the records that have the lower-cased filter
\* text in the lower-cased name without its leading "/", image, state, id or
\* ports, in the order of the list; for the empty text it returns the list.
C11_FilterIsMatchingSubsequence ==
  call.fn = "filterContainers" /\ call.done =>
    /\ call.out = PickedFrom(call.containers,
                             {i \in 1..Len(call.containers) : Hit(call.containers[i], call.filter)})
    /\ call.filter = <<>> => call.out = call.containers

\* the text "/" drops the record whose only "/" leads its name and keeps the
\* one with "/" in its ports
C11_Witness ==
  /\ call.fn = "filterContainers"
  /\ call.done
  /\ call.containers = <<cDb, cWeb, cDb>>
  /\ call.filter = <<"/">>
  /\ call.out = <<cWeb>>

ColumnSum(cols) == cols[1] + cols[2] + cols[3] + cols[4] + cols[5]
LayoutDone == call.fn = "updateTableSize" /\ call.done
LayoutMinimums ==
  /\ call.out.table.cols[2] >= 20
  /\ call.out.table.cols[3] >= 25
  /\ call.out.table.cols[5] >= 20
LayoutClamp ==
  call.width < 80 =>
    /\ call.out.width = 80
    /\ call.out.table.cols = updateTableSize([initialModel EXCEPT !.width = 80]).table.cols

\* C12 as stated: for every width of at least 80 the five column widths and
\* the reserve of 10 fit in the width, and the name, image and ports columns
\* have their minimums; a width below 80 is laid out as 80.
C12_LayoutFitsFrom80 ==
  LayoutDone =>
    /\ call.width >= 80 =>
         /\ ColumnSum(call.out.table.cols) + 10 <= call.width
         /\ LayoutMinimums
    /\ LayoutClamp

\* C12 as amended: the columns and the reserve fit in every width of at least
\* 107; the minimums hold for every width; a width below 80 is laid out as 80.
C12_LayoutFitsFrom107 ==
  LayoutDone =>
    /\ call.width >= 107 => ColumnSum(call.out.table.cols) + 10 <= call.width
    /\ LayoutMinimums
    /\ LayoutClamp

\* the narrowest width that fits: every flexible column but the name is at
\* its minimum
C12_Witness ==
  /\ LayoutDone
  /\ call.width = 107
  /\ call.out.table.cols = <<14, 22, 25, 16, 20>>

\* C13: truncate returns s when it has at most n bytes, and otherwise n bytes:
\* the first n-3 bytes of s, then "...".
C13_TruncateShape ==
  call.fn = "truncate" /\ call.done =>
    IF Len(call.s) <= call.max
    THEN call.out = call.s
    ELSE /\ Len(call.out) = call.max
         /\ \A i \in 1..(call.max - 3) : call.out[i] = call.s[i]
         /\ \A i \in (call.max - 2)..call.max : call.out[i] = "."

\* a string one byte too long for the id column
C13_Witness ==
  /\ call.fn = "truncate"
  /\ call.done
  /\ call.max = 14
  /\ Len(call.s) = 15
  /\ call.out = StringOfLen(11) \o <<".", ".", ".">>

\* the last step handed Update a list result
ListResult(m) == m.type = "containersLoaded"

\* C14: when two list results with the same records are processed one right
\* after the other, the second leaves the rows, the records, loading and the
\* status as the first left them.
C14_ListResultIdempotent ==
  [][(ListResult(msg) /\ ListResult(msg') /\ msg'.containers = msg.containers)
       => /\ model'.table.rows = model.table.rows
          /\ model'.containers = model.containers
          /\ model'.loading = model.loading
          /\ model'.statusMsg = model.statusMsg]_vars

\* a list result with records was processed while the listing of a manual
\* refresh is still to return
C14_Witness ==
  /\ program = "running"
  /\ ListResult(msg)
  /\ msg.containers = <<cWeb, cDb>>
  /\ Len(model.table.rows) = 2
  /\ BagIn(LoadCmd, inflight)

\* C15: for a successful listing loadContainers returns the records of the
\* lines that decode, in the order of the lines; empty and malformed lines
\* give no record and no error.
C15_ParserKeepsDecodedLines ==
  call.fn = "loadContainers" /\ call.done /\ call.ok =>
    LET good == {i \in 1..Len(call.lines) : call.lines[i].json = "ok"} IN
    /\ call.out.type = "containersLoaded"
    /\ Len(call.out.containers) = Cardinality(good)
    /\ \A k \in 1..Cardinality(good) :
         call.out.containers[k] = call.lines[Kth(good, k)].c

\* two malformed lines, then a valid one: one record
C15_Witness ==
  /\ call.fn = "loadContainers"
  /\ call.done
  /\ call.ok
  /\ call.lines = <<BadLine, BadLine, JsonLine(cTmp)>>
  /\ call.out = containersLoaded(<<cTmp>>)

FailedCaptions ==
  {"Failed to start container: ", "Failed to stop container: ",
   "Failed to delete container: "}

\* the step processes the result of a command of one of the kinds, and the
\* result is not the one a success gives
FailedResult(kinds, successType) ==
  /\ from' # <<>>
  /\ from'[1].kind \in kinds
  /\ ~(msg'.type = successType /\ (successType = "actionResult" => msg'.success))

\* C16: the result of a failed start, stop or delete sets a status that begins
\* with "Failed", clears loading, leaves err alone and does not end the
\* program; the result of a failed listing sets err and quits.
C16_ActionFailureRecoverable ==
  [][/\ FailedResult(ActionKinds, "actionResult") =>
          /\ model'.statusMsg # <<>>
          /\ model'.statusMsg[1] \in FailedCaptions
          /\ ~model'.loading
          /\ model'.err = model.err
          /\ cmd' = <<>>
          /\ program' = "running"
     /\ FailedResult({"loadContainers", "Tick"}, "containersLoaded") =>
          /\ model'.err # <<>>
          /\ cmd' = <<QuitCmd>>]_vars

\* a stop has failed: the status says so and the program goes on
C16_Witness ==
  /\ program = "running"
  /\ from # <<>>
  /\ from[1].kind = "stopContainer"
  /\ msg.type = "actionResult"
  /\ ~msg.success
  /\ model.statusMsg = <<"Failed to stop container: ">> \o ExitErr
  /\ ~model.loading
  /\ model.err = <<>>
  /\ ~BagIn(QuitCmd, inflight)

\* C17: processing a list result clears loading, clears the status when it is
\* exactly "Refreshing containers...", and leaves any other status as it is.
C17_ListResultStatus ==
  [][ListResult(msg') =>
       /\ ~model'.loading
       /\ model'.statusMsg = IF model.statusMsg = Refreshing THEN <<>> ELSE model.statusMsg
    ]_vars

\* the delayed list of a stop returned before the stop did: the caption of
\* the stop is still the status
C17_Witness ==
  /\ program = "running"
  /\ ListResult(msg)
  /\ from = <<TickCmd>>
  /\ model.statusMsg # <<>>
  /\ model.statusMsg[1] = "Stopping container "
  /\ ~model.loading
  /\ \E c \in BagToSet(inflight) : c.kind = "stopContainer"

\* the last step was a key that dispatched an action and its delayed list
ActionDispatched ==
  /\ program = "running"
  /\ msg.type = "KeyMsg"
  /\ Len(cmd) = 2
  /\ cmd[1].kind \in ActionKinds
  /\ cmd[2] = TickCmd

\* C18: from the state an s, x or d key leaves, processing the action's result
\* and then the delayed list's result gives the same model as processing them
\* in the other order: the status is the action's message, loading is false
\* and the records are those of the list result.
C18_ResultOrdersAgree ==
  ActionDispatched =>
    \A a \in Results(cmd[1]) :
      \A l \in {r \in Results(cmd[2]) : ListResult(r)} :
        LET actionFirst == Update(Update(model, a).m, l).m
            listFirst == Update(Update(model, l).m, a).m IN
        /\ actionFirst = listFirst
        /\ listFirst.statusMsg = a.message
        /\ ~listFirst.loading
        /\ listFirst.containers = l.containers

\* one key, x; its delayed list returned first with other records, then the
\* stop: nothing is left in flight
C18_Witness ==
  /\ program = "running"
  /\ events = 1
  /\ inflight = EmptyBag
  /\ from # <<>>
  /\ from[1].kind = "stopContainer"
  /\ msg.type = "actionResult"
  /\ model.statusMsg = msg.message
  /\ ~model.loading
  /\ model.err = <<>>
  /\ model.containers = <<cTmp>>

\* the number of start, stop and delete commands started and not yet returned
RECURSIVE CountIn(_, _)
CountIn(S, bag) ==
  IF S = {} THEN 0
  ELSE LET c == CHOOSE x \in S : TRUE IN CopiesIn(c, bag) + CountIn(S \ {c}, bag)
ActionsInFlight(bag) == CountIn({c \in BagToSet(bag) : c.kind \in ActionKinds}, bag)

\* C19 as claimed: never are two start, stop or delete commands in flight.
C19_OneActionInFlight == ActionsInFlight(inflight) <= 1

\* C19 as amended: a step starts at most one start, stop or delete command,
\* and only the step of an s, x or d key in Browsing mode starts one, whether
\* or not an earlier one is still in flight.
C19_OneActionPerKey ==
  [][/\ ActionsInFlight(inflight') <= ActionsInFlight(inflight) + 1
     /\ Cardinality(CmdsOf(ActionKinds, cmd')) <= 1
     /\ Cardinality(CmdsOf(ActionKinds, cmd')) = 1 =>
          \E k \in {"s", "x", "d"} : BrowsingKey(k)]_vars

\* a key has started an action while an earlier one has not returned
C19_Witness ==
  /\ program = "running"
  /\ msg.type = "KeyMsg"
  /\ Cardinality(CmdsOf(ActionKinds, cmd)) = 1
  /\ ActionsInFlight(inflight) = 2

\* the records that pass the filter text of m, in their order
Visible(m) == SelectSeq(m.containers, LAMBDA c : Hit(c, m.filter.value))

ActionOf(k) ==
  CASE k = "s" -> "startContainer" [] k = "x" -> "stopContainer" [] k = "d" -> "deleteContainer"

\* C20: an s, x or d key in Browsing mode acts on the record at the cursor's
\* index among the records that pass the filter text, which is the record
\* shown in the cursor's row: a command it starts carries that record's id and
\* a refusal goes by that record's state.  Without such a record the key
\* starts no command and leaves status, loading and records as they are.
C20_KeyActsOnCursorRecord ==
  [][\A k \in {"s", "x", "d"} :
       BrowsingKey(k) =>
         LET visible == Visible(model)
             i == model.table.cursor + 1 IN
         IF i \in 1..Len(visible)
         THEN /\ model.table.rows[i] = containerToRow(model.table.cols, visible[i])
              /\ cmd' # <<>> =>
                   cmd' = <<Cmd(ActionOf(k), visible[i].ID), TickCmd>>
              /\ cmd' = <<>> /\ program' = "running" =>
                   \/ k = "s" /\ visible[i].State = Running
                              /\ model'.statusMsg = AlreadyRunning
                   \/ k = "x" /\ visible[i].State # Running
                              /\ model'.statusMsg = NotRunning
         ELSE /\ cmd' = <<>>
              /\ model'.statusMsg = model.statusMsg
              /\ model'.loading = model.loading
              /\ model'.containers = model.containers
              /\ program' = program]_vars

\* with the filter text "s" only the second record is shown; d at the first
\* row deletes it
C20_Witness ==
  /\ program = "running"
  /\ model.filter.value = <<"s">>
  /\ model.containers = <<cWeb, cDb>>
  /\ model.table.cursor = 0
  /\ msg = KeyMsg("d")
  /\ cmd = <<Cmd("deleteContainer", cDb.ID), TickCmd>>

\* C21: the ports cell of a row is the ports text without any "0.0.0.0:",
\* truncated to the width of the ports column; for an empty ports text it is
\* the dash.
C21_PortsCellCutToColumn ==
  call.fn = "containerToRow" /\ call.done =>
    call.out[5] = IF call.c.Ports = <<>> THEN Dash
                  ELSE truncate(RemoveAll(call.c.Ports, BindAll), call.cols[5])

\* C22: deleteContainer runs "docker stop" and then "docker rm" on its id,
\* the second whatever the exit of the first, and returns a success when the
\* rm succeeded and "Failed to delete container" when it failed; the exit of
\* the stop shows nowhere in the result.
C22_DeleteResultFromRemoval ==
  call.fn = "deleteContainer" =>
    LET id == call.containerID
        stop(ok) == Run("stop", id, ok)
        rm(ok) == Run("rm", id, ok) IN
    /\ \/ call.ran = <<>>
       \/ \E s \in BOOLEAN : call.ran = <<stop(s)>>
       \/ \E s \in BOOLEAN, r \in BOOLEAN : call.ran = <<stop(s), rm(r)>>
    /\ call.done =>
         /\ Len(call.ran) = 2
         /\ call.out.type = "actionResult"
         /\ call.out.success = call.ran[2].ok
         /\ call.out.message =
              IF call.ran[2].ok
              THEN <<"Container ">> \o SubSeq(id, 1, 12) \o <<" deleted successfully">>
              ELSE <<"Failed to delete container: ">> \o ExitErr

\* the stop failed, the rm succeeded: a success is returned
C22_Witness ==
  /\ call.fn = "deleteContainer"
  /\ call.done
  /\ ~call.ran[1].ok
  /\ call.ran[2].ok
  /\ call.out.success
  /\ call.out.message[Len(call.out.message)] = " deleted successfully"

\* C23: only a key changes the filtering flag or the filter text: "/" in
\* Browsing mode alone sets the flag, esc and enter in Filtering mode alone
\* clear it.  A list result, an action result or a resize taken in Filtering
\* mode leaves the flag set and the text as it is, and has its effect on the
\* records, rows, loading and status all the same.
C23_OnlyKeysChangeFilter ==
  [][/\ (model'.filtering # model.filtering \/ model'.filter.value # model.filter.value)
          => msg'.type = "KeyMsg"
     /\ (~model.filtering /\ model'.filtering) => msg' = KeyMsg("/")
     /\ (model.filtering /\ ~model'.filtering) => msg' \in {KeyMsg("esc"), KeyMsg("enter")}
     /\ (model.filtering /\ msg'.type \in {"containersLoaded", "actionResult", "WindowSizeMsg"})
          => /\ model'.filtering
             /\ model'.filter = model.filter
             /\ model'.table.rows = ProjectedRows(model')
             /\ ListResult(msg') =>
                  /\ model'.containers = msg'.containers
                  /\ ~model'.loading
                  /\ model'.statusMsg =
                       IF model.statusMsg = Refreshing THEN <<>> ELSE model.statusMsg
             /\ msg'.type = "actionResult" =>
                  /\ model'.statusMsg = msg'.message
                  /\ ~model'.loading
                  /\ model'.containers = model.containers
             /\ msg'.type = "WindowSizeMsg" =>
                  /\ model'.height = msg'.Height
                  /\ model'.table.height = max(10, msg'.Height - 10)
                  /\ model'.width = max(80, msg'.Width)
                  /\ model'.containers = model.containers
                  /\ model'.statusMsg = model.statusMsg
                  /\ model'.loading = model.loading
    ]_vars

\* the result of a stop arrived while a filter text was being typed
C23_Witness ==
  /\ program = "running"
  /\ model.filtering
  /\ Len(model.filter.value) = 1
  /\ msg.type = "actionResult"
  /\ model.statusMsg = msg.message
  /\ ~model.loading

====
